---- MODULE Spec2Model ----
(***************************************************************************)
(* DocChat-RAG: the ingestion pipeline (ingestion/pipeline.py) and the     *)
(* session history behind the conversation chain (chat/chain.py).          *)
(*                                                                         *)
(* Strings are sequences of one-character strings, so that prefix tests,   *)
(* suffix extraction, lower-casing and the chunk_id format are computed    *)
(* character by character, as the code computes them.                      *)
(***************************************************************************)
EXTENDS Integers, Sequences, FiniteSets, TLC

VARIABLES
    index,      \* the Chroma collection: the set of its records
    clock,      \* datetime.now() as seen by _get_timestamp: one tick per call
    last,       \* the last process_source call: its inputs, what it did, its result
    batch,      \* the last process_multiple_sources call: its inputs and summary
    det,        \* the last load_document type resolution (source, override, kind)
    store,      \* chain._store: session_id -> history object (an index of heap)
    heap,       \* the InMemoryChatMessageHistory objects: each a message list
    done,       \* per session, the turns whose append has completed, in order
    chat,       \* the last chat call of the single-caller specification
    pc,         \* per caller thread: where it is inside answer()
    loc,        \* per caller thread: its locals (session, message, history, reply)
    calls       \* number of chat calls started so far

vars == <<index, clock, last, batch, det, store, heap, done, chat, pc, loc, calls>>

None == "None"

\* F applied to the value of v, which is computed once
With(v, F(_)) == CHOOSE y \in {F(x) : x \in {v}} : TRUE

-----------------------------------------------------------------------------
(* Bounds of the model.                                                    *)

MaxCalls == 2
MaxDocs == 2
MaxChunks == 2
MaxBatch == 2
MaxChatCalls == 3

-----------------------------------------------------------------------------
(* Strings.                                                                *)

UpperAlpha == <<"A","B","C","D","E","F","G","H","I","J","K","L","M",
                "N","O","P","Q","R","S","T","U","V","W","X","Y","Z">>
LowerAlpha == <<"a","b","c","d","e","f","g","h","i","j","k","l","m",
                "n","o","p","q","r","s","t","u","v","w","x","y","z">>

\* str.lower() on one character
LowerChar(c) ==
    IF \E i \in 1..26 : UpperAlpha[i] = c
    THEN LowerAlpha[CHOOSE i \in 1..26 : UpperAlpha[i] = c]
    ELSE c

\* str.lower()
Lower(s) == [i \in 1..Len(s) |-> LowerChar(s[i])]

\* str.startswith(p)
StartsWith(s, p) == Len(s) >= Len(p) /\ SubSeq(s, 1, Len(p)) = p

\* str.rfind(c), 1-based; 0 when c does not occur
RFind(s, c) ==
    IF \E i \in 1..Len(s) : s[i] = c
    THEN CHOOSE i \in 1..Len(s) : s[i] = c /\ \A j \in (i+1)..Len(s) : s[j] # c
    ELSE 0

\* the decimal digits of a natural number, as str(i) / f"{i}" writes them
DigitChars == <<"0","1","2","3","4","5","6","7","8","9">>

RECURSIVE Digits(_)
Digits(n) ==
    IF n < 10 THEN <<DigitChars[n + 1]>>
    ELSE Digits(n \div 10) \o <<DigitChars[(n % 10) + 1]>>

HTTP == <<"h","t","t","p",":","/","/">>
HTTPS == <<"h","t","t","p","s",":","/","/">>

-----------------------------------------------------------------------------
(* Source type detection.                                                  *)

\* Path(source).name: the last path component, empty and "." components dropped
RECURSIVE PathName(_)
PathName(source) ==
    LET p == RFind(source, "/") IN
    IF source = <<>> THEN <<>>
    ELSE IF p = Len(source) THEN PathName(SubSeq(source, 1, Len(source) - 1))
    ELSE LET name == SubSeq(source, p + 1, Len(source)) IN
         IF name = <<".">> THEN PathName(SubSeq(source, 1, p)) ELSE name

\* Path(source).suffix: from the last dot of the name, unless the name starts
\* or ends with it
PathSuffix(source) ==
    LET name == PathName(source)
        p == RFind(name, ".")
    IN IF 1 < p /\ p < Len(name) THEN SubSeq(name, p, Len(name)) ELSE <<>>

type_mapping ==
    { << <<".","p","d","f">>, "pdf" >>,
      << <<".","d","o","c","x">>, "docx" >>,
      << <<".","d","o","c">>, "docx" >>,
      << <<".","c","s","v">>, "csv" >>,
      << <<".","t","x","t">>, "text" >>,
      << <<".","m","d">>, "text" >>,
      << <<".","p","y">>, "text" >>,
      << <<".","j","s","o","n">>, "text" >>,
      << <<".","p","n","g">>, "image" >>,
      << <<".","j","p","g">>, "image" >>,
      << <<".","j","p","e","g">>, "image" >> }

\* dict.get(key, default)
MappingGet(extension, default) ==
    IF \E e \in type_mapping : e[1] = extension
    THEN (CHOOSE e \in type_mapping : e[1] = extension)[2]
    ELSE default

\* the mutant: the extension is looked up without .lower()
DetectNoLower(source) ==
    IF StartsWith(source, HTTP) \/ StartsWith(source, HTTPS) THEN "web"
    ELSE MappingGet(PathSuffix(source), "text")

_detect_source_type(source) ==
    IF StartsWith(source, HTTP) \/ StartsWith(source, HTTPS) THEN "web"
    ELSE MappingGet(Lower(PathSuffix(source)), "text")

\* load_document, lines 37-38: the kind the loader is chosen by
ResolveType(source, source_type) ==
    IF source_type = None THEN _detect_source_type(source) ELSE source_type

loaders == {"pdf", "docx", "csv", "text", "web", "image"}

-----------------------------------------------------------------------------
(* The ingestion pipeline.                                                 *)
(*                                                                         *)
(* A raw document is abstracted to the number of chunks the text splitter  *)
(* cuts it into (the splitter is a deterministic function of the text).    *)
(* What a loader returns for a source is an input of each call: the file   *)
(* or page behind a source may change between two calls.                   *)

SrcA == <<"a",".","p","d","f">>
SrcB == <<"b">>
Sources == {SrcA, SrcB}

\* the source_type argument: absent, or a kind the registry does not know
Overrides == {None, "xml"}

\* loader.load(): raises, or returns 0..MaxDocs documents
LoaderOutcomes ==
    {[raises |-> TRUE, docs |-> <<>>]} \cup
    {[raises |-> FALSE, docs |-> d] :
        d \in UNION {[1..k -> 0..MaxChunks] : k \in 0..MaxDocs}}

\* what goes wrong after loading: nothing, the splitter raises, the index
\* rejects the write
Faults == {"none", "split", "store"}

\* the mutant: an unknown kind falls back to the text loader instead of raising
LoadDocumentFallback(source, source_type, outcome, now) ==
    IF outcome.raises THEN <<>>
    ELSE [i \in 1..Len(outcome.docs) |->
            [source |-> source,
             source_type |-> ResolveType(source, source_type),
             ingestion_timestamp |-> now,
             nchunks |-> outcome.docs[i]]]

\* load_document with _get_loader: any exception is caught and [] returned
LoadDocument(source, source_type, outcome, now) ==
    LET kind == ResolveType(source, source_type) IN
    IF kind \notin loaders THEN <<>>          \* ValueError, caught at line 54
    ELSE IF outcome.raises THEN <<>>          \* loader.load() raised, caught
    ELSE [i \in 1..Len(outcome.docs) |->
            [source |-> source,
             source_type |-> kind,
             ingestion_timestamp |-> now,
             nchunks |-> outcome.docs[i]]]

\* f"{doc.metadata.get('source', 'unknown')}_{i}"
ChunkId(source, i) == source \o <<"_">> \o Digits(i)

\* the chunks of one document, enumerate(chunks) from 0
DocChunks(doc) ==
    [k \in 1..doc.nchunks |->
        [chunk_id |-> ChunkId(doc.source, k - 1),
         chunk_index |-> k - 1,
         total_chunks |-> doc.nchunks,
         original_source |-> doc.source,
         ingestion_timestamp |-> doc.ingestion_timestamp]]

RECURSIVE SplitDocuments(_)
SplitDocuments(documents) ==
    IF documents = <<>> THEN <<>>
    ELSE DocChunks(Head(documents)) \o SplitDocuments(Tail(documents))

Keys(idx) == {r.chunk_id : r \in idx}

HasDuplicates(ids) == \E i, j \in 1..Len(ids) : i < j /\ ids[i] = ids[j]

\* the mutant: a record is added without replacing the one of the same id
Insert(idx, rec) == idx \cup {rec}

\* one record of a Chroma upsert: insert, or replace the record of that id
Upsert(idx, rec) == {r \in idx : r.chunk_id # rec.chunk_id} \cup {rec}

RECURSIVE UpsertAll(_, _)
UpsertAll(idx, documents) ==
    IF documents = <<>> THEN idx
    ELSE UpsertAll(Upsert(idx, Head(documents)), Tail(documents))

\* the mutant: the records of the source are deleted before the new ones go in
AddDocumentsPurge(idx, documents, ids, backendOk) ==
    IF ~backendOk \/ HasDuplicates(ids)
    THEN [raised |-> TRUE, index |-> idx]
    ELSE [raised |-> FALSE,
          index |-> UpsertAll({r \in idx : \A i \in 1..Len(documents) :
                                  r.original_source # documents[i].original_source},
                              documents)]

\* vector_store.add_documents(documents=, ids=): one upsert of the whole batch.
\* The write is rejected whole when the backend fails, and also when the ids
\* repeat: the Chroma client validates the ids of an upsert and raises
\* DuplicateIDError before anything is written.
AddDocuments(idx, documents, ids, backendOk) ==
    IF ~backendOk \/ HasDuplicates(ids)
    THEN [raised |-> TRUE, index |-> idx]
    ELSE [raised |-> FALSE, index |-> UpsertAll(idx, documents)]

Failure(msg) == [success |-> FALSE, message |-> msg, keys |-> {"success", "message"},
                 chunk_count |-> 0]

\* store_documents: ids is the list handed to the index, added whether
\* add_documents was invoked
StoreDocuments(idx, documents, backendOk) ==
    IF documents = <<>>
    THEN [index |-> idx, ids |-> <<>>, added |-> FALSE,
          result |-> Failure("No documents to store")]
    ELSE LET ids == [i \in 1..Len(documents) |-> documents[i].chunk_id]
             add == AddDocuments(idx, documents, ids, backendOk)
         IN IF add.raised
            THEN [index |-> add.index, ids |-> ids, added |-> TRUE,
                  result |-> Failure("Failed to store documents")]
            ELSE [index |-> add.index, ids |-> ids, added |-> TRUE,
                  result |-> [success |-> TRUE, message |-> "Successfully stored",
                              keys |-> {"success", "message", "chunk_count", "sources"},
                              chunk_count |-> Len(documents)]]

\* the body of process_source's try block: exc is an exception leaving it
ProcessSourceBody(idx, now, source, source_type, outcome, fault) ==
    LET documents == LoadDocument(source, source_type, outcome, now)
        chunks == SplitDocuments(documents)
        st == StoreDocuments(idx, chunks, fault # "store")
        base == [index |-> idx, ids |-> <<>>,
                 added |-> FALSE, exc |-> FALSE,
                 result |-> Failure("No documents loaded")]
    IN IF documents = <<>> THEN base
       ELSE IF fault = "split" THEN [base EXCEPT !.exc = TRUE]
       ELSE IF chunks = <<>>
            THEN [base EXCEPT !.result = Failure("No chunks created")]
       ELSE [base EXCEPT !.index = st.index, !.ids = st.ids, !.added = st.added,
                         !.result = [st.result EXCEPT
                                        !.keys = @ \cup {"processing_summary"}]]

\* the mutant: no except clause around the body
ProcessSourceNoCatch(idx, now, source, source_type, outcome, fault) ==
    LET b == ProcessSourceBody(idx, now, source, source_type, outcome, fault) IN
    [index |-> b.index, ids |-> b.ids, added |-> b.added,
     result |-> b.result, raised |-> b.exc]

\* process_source: raised says whether an exception reaches the caller
ProcessSource(idx, now, source, source_type, outcome, fault) ==
    LET b == ProcessSourceBody(idx, now, source, source_type, outcome, fault) IN
    [index |-> b.index, ids |-> b.ids, added |-> b.added, raised |-> FALSE,
     result |-> IF b.exc THEN Failure("Pipeline failed") ELSE b.result]

NoCall == [op |-> "none", source |-> <<>>, source_type |-> None,
           outcome |-> [raises |-> FALSE, docs |-> <<>>], fault |-> "none",
           ids |-> <<>>, added |-> FALSE, raised |-> FALSE, result |-> Failure(""),
           repeat |-> FALSE, prev_chunks |-> 0]

\* the file behind a source whose loader is never built
Unread == [raises |-> FALSE, docs |-> <<1>>]

\* one call of ingestion_pipeline.process_source (api/views.py, ingest_view).
\* The loader's outcome is an input only when a loader is built, a fault after
\* loading only when something was loaded. last.repeat says that the call
\* before succeeded on the same source with the same kind and documents;
\* last.prev_chunks is the chunk count of the call before when it succeeded on
\* the same source, else 0.
ProcessSourceCall ==
    /\ clock < MaxCalls
    /\ \E source \in Sources, source_type \in Overrides :
       \E outcome \in IF ResolveType(source, source_type) \in loaders
                      THEN LoaderOutcomes ELSE {Unread} :
       \E fault \in IF outcome.raises \/ outcome.docs = <<>>
                    THEN {"none"} ELSE Faults :
       \E r \in {ProcessSource(index, clock + 1, source, source_type, outcome, fault)} :
          /\ index' = r.index
          /\ last' = [op |-> "process_source", source |-> source,
                      source_type |-> source_type, outcome |-> outcome,
                      fault |-> fault, ids |-> r.ids, added |-> r.added,
                      raised |-> r.raised, result |-> r.result,
                      repeat |-> /\ last.result.success
                                 /\ last.source = source
                                 /\ last.source_type = source_type
                                 /\ last.outcome = outcome,
                      prev_chunks |-> IF last.result.success /\ last.source = source
                                      THEN Len(last.ids) ELSE 0]
    /\ clock' = clock + 1
    /\ UNCHANGED <<batch, det, store, heap, done, chat, pc, loc, calls>>

-----------------------------------------------------------------------------
(* Batch ingestion.                                                        *)

\* result.get('chunk_count', 0)
GetChunkCount(result) ==
    IF "chunk_count" \in result.keys THEN result.chunk_count ELSE 0

\* the mutant: once a source has failed, the sources after it are not processed
BatchStepAbort(acc, c) ==
    With(ProcessSource(acc.index, acc.now + 1, c.source, c.type, c.outcome, c.fault),
         LAMBDA r :
            IF acc.successful_sources < Len(acc.results) THEN acc
            ELSE [acc EXCEPT
                    !.index = r.index,
                    !.now = @ + 1,
                    !.results = Append(@, [source |-> c.source, result |-> r.result]),
                    !.successful_sources = IF r.result.success THEN @ + 1 ELSE @,
                    !.total_chunks = IF r.result.success
                                     THEN @ + GetChunkCount(r.result) ELSE @])

\* one iteration of the for loop of process_multiple_sources, lines 196-208;
\* an exception out of process_source would leave the loop and the call
BatchStep(acc, c) ==
    With(ProcessSource(acc.index, acc.now + 1, c.source, c.type, c.outcome, c.fault),
         LAMBDA r :
            IF acc.raised THEN acc
            ELSE IF r.raised
                 THEN [acc EXCEPT !.index = r.index, !.now = @ + 1, !.raised = TRUE]
            ELSE [acc EXCEPT
                    !.index = r.index,
                    !.now = @ + 1,
                    !.results = Append(@, [source |-> c.source, result |-> r.result]),
                    !.successful_sources = IF r.result.success THEN @ + 1 ELSE @,
                    !.total_chunks = IF r.result.success
                                     THEN @ + GetChunkCount(r.result) ELSE @])

\* process_multiple_sources: the loop over the entries, then the summary
ProcessMultipleSources(idx, now, sources) ==
    LET loop[k \in 0..Len(sources)] ==
            IF k = 0
            THEN [index |-> idx, now |-> now, results |-> <<>>,
                  successful_sources |-> 0, total_chunks |-> 0, raised |-> FALSE]
            ELSE With(loop[k - 1], LAMBDA acc : BatchStep(acc, sources[k]))
    IN With(loop[Len(sources)],
            LAMBDA acc :
               [index |-> acc.index, now |-> acc.now, raised |-> acc.raised,
                summary |-> [success |-> acc.successful_sources > 0,
                             total_sources |-> Len(sources),
                             successful_sources |-> acc.successful_sources,
                             failed_sources |-> Len(sources) - acc.successful_sources,
                             total_chunks_stored |-> acc.total_chunks,
                             detailed_results |-> acc.results]])

\* the entries of a batch: a source_config with what its loader and the index
\* will do when its turn comes
BatchTypes == {None, "xml"}
BatchOutcomes ==
    {o \in LoaderOutcomes : o.docs \in {<<>>, <<0>>, <<1>>, <<2>>, <<1, 1>>}}
BatchEntries ==
    [source : Sources, type : BatchTypes, outcome : BatchOutcomes, fault : Faults]

NoBatch == [op |-> "none", sources |-> <<>>, raised |-> FALSE,
            summary |-> [success |-> FALSE, total_sources |-> 0,
                         successful_sources |-> 0, failed_sources |-> 0,
                         total_chunks_stored |-> 0, detailed_results |-> <<>>]]

\* one call of process_multiple_sources; MaxBatch bounds the entries of all the
\* batches of a run together
ProcessMultipleSourcesCall ==
    \E n \in 0..MaxBatch :
        /\ clock + n <= MaxBatch
        /\ \E sources \in [1..n -> BatchEntries] :
              \E r \in {ProcessMultipleSources(index, clock, sources)} :
                 /\ index' = r.index
                 /\ clock' = r.now
                 /\ batch' = [op |-> "process_multiple_sources", sources |-> sources,
                              raised |-> r.raised, summary |-> r.summary]
        /\ UNCHANGED <<last, det, store, heap, done, chat, pc, loc, calls>>

-----------------------------------------------------------------------------
(* Type resolution on composed sources.                                    *)
(*                                                                         *)
(* A source is put together from a prefix, a directory, a file stem, an    *)
(* extension and an optional trailing slash; det keeps the parts next to   *)
(* the kind load_document resolved for the whole string.                   *)

Prefixes == {<<>>, <<"/">>, HTTP, HTTPS, <<"H","T","T","P",":","/","/">>}
Dirs == {<<>>, <<"d",".","p","d","f","/">>}
Stems == {<<>>, <<"a">>, <<"a",".","t","a","r">>}
Exts == {e[1] : e \in type_mapping} \cup
        {<<>>, <<".">>, <<".","P","D","F">>, <<".","J","p","g">>,
         <<".","D","o","c","X">>, <<".","x","y","z">>, <<".","p","d">>}
Trails == {<<>>, <<"/">>}
DetOverrides == {None, "image", "xml", ""}

NoDet == [op |-> "none", source |-> <<>>, override |-> None, prefix |-> <<>>,
          dir |-> <<>>, stem |-> <<>>, ext |-> <<>>, trail |-> <<>>,
          kind |-> None, documents |-> 0]

\* the calls of load_document that are checked: every composed source with
\* every override
DetInputs ==
    {[op |-> "input", source |-> prefix \o dir \o stem \o ext \o trail,
      override |-> override, prefix |-> prefix, dir |-> dir, stem |-> stem,
      ext |-> ext, trail |-> trail, kind |-> None, documents |-> 0] :
        prefix \in Prefixes, dir \in Dirs, stem \in Stems, ext \in Exts,
        trail \in Trails, override \in DetOverrides}

\* one call of load_document: the kind it resolves and the documents it returns
LoadDocumentCall ==
    /\ det.op = "input"
    /\ \E outcome \in LoaderOutcomes :
          det' = [det EXCEPT
                    !.op = "load_document",
                    !.kind = ResolveType(det.source, det.override),
                    !.documents = Len(LoadDocument(det.source, det.override,
                                                   outcome, 1))]
    /\ UNCHANGED <<index, clock, last, batch, store, heap, done, chat, pc, loc, calls>>

-----------------------------------------------------------------------------
(* The session history store and the conversation chain.                   *)

Sessions == {"s1", "s2"}
Messages == {"hi", "bye"}
Replies == {"hello", "goodbye"}
Threads == {1, 2}

Human(m) == [role |-> "human", content |-> m]
AI(a) == [role |-> "ai", content |-> a]

\* the transcript registered for a session; an unseen session has none yet
Hist(s) == IF s \in DOMAIN store THEN heap[store[s]] ELSE <<>>

\* the mutant: a new history is registered on every access
GetSessionHistoryFresh(st, hp, s) ==
    [store |-> (s :> (Len(hp) + 1)) @@ st,
     heap |-> Append(hp, <<>>),
     hist |-> Len(hp) + 1]

\* get_session_history(session_id), run without interruption
GetSessionHistory(st, hp, s) ==
    IF s \notin DOMAIN st
    THEN [store |-> (s :> (Len(hp) + 1)) @@ st,
          heap |-> Append(hp, <<>>),
          hist |-> Len(hp) + 1]
    ELSE [store |-> st, heap |-> hp, hist |-> st[s]]

\* InMemoryChatMessageHistory.add_messages
AddMessages(hp, h, msgs) == [hp EXCEPT ![h] = @ \o msgs]

\* the mutant: the user message is recorded before the backend is called
InvokeEager(st, hp, s, m, genOk, reply) ==
    LET g == GetSessionHistory(st, hp, s) IN
    IF genOk
    THEN [store |-> g.store, hist |-> g.hist, raised |-> FALSE,
          heap |-> AddMessages(g.heap, g.hist, <<Human(m), AI(reply)>>)]
    ELSE [store |-> g.store, hist |-> g.hist, raised |-> TRUE,
          heap |-> AddMessages(g.heap, g.hist, <<Human(m)>>)]

\* with_history.invoke({"input": m}, session_id=s): the history is fetched, the
\* base chain runs, and only when it returns are the input and the output added
Invoke(st, hp, s, m, genOk, reply) ==
    LET g == GetSessionHistory(st, hp, s) IN
    IF genOk
    THEN [store |-> g.store, hist |-> g.hist, raised |-> FALSE,
          heap |-> AddMessages(g.heap, g.hist, <<Human(m), AI(reply)>>)]
    ELSE [store |-> g.store, hist |-> g.hist, raised |-> TRUE, heap |-> g.heap]

NoChat == [op |-> "none", session |-> "s1", message |-> "", reply |-> "",
           backend |-> "ok", raised |-> FALSE, hist |-> 0, before |-> <<>>]

\* a single caller: get(session_id)
GetCall ==
    /\ calls < MaxChatCalls
    /\ \E s \in Sessions :
          \E g \in {GetSessionHistory(store, heap, s)} :
             /\ store' = g.store
             /\ heap' = g.heap
             /\ chat' = [op |-> "get", session |-> s, message |-> "", reply |-> "",
                         backend |-> "ok", raised |-> FALSE, hist |-> g.hist,
                         before |-> Hist(s)]
    /\ calls' = calls + 1
    /\ UNCHANGED <<index, clock, last, batch, det, done, pc, loc>>

\* a single caller: answer(session_id, user_message)
AnswerCall ==
    /\ calls < MaxChatCalls
    /\ \E s \in Sessions, m \in Messages, genOk \in BOOLEAN, reply \in Replies :
          \E r \in {Invoke(store, heap, s, m, genOk, reply)} :
             /\ store' = r.store
             /\ heap' = r.heap
             /\ done' = IF genOk
                        THEN [done EXCEPT ![s] = @ \o <<Human(m), AI(reply)>>]
                        ELSE done
             /\ chat' = [op |-> "answer", session |-> s, message |-> m,
                         reply |-> reply,
                         backend |-> IF genOk THEN "ok" ELSE "error",
                         raised |-> r.raised, hist |-> r.hist, before |-> Hist(s)]
    /\ calls' = calls + 1
    /\ UNCHANGED <<index, clock, last, batch, det, pc, loc>>

-----------------------------------------------------------------------------
(* Concurrent callers: each thread runs answer() one interruptible step at *)
(* a time (nothing in chain.py holds a lock).                              *)

NoLoc == [session |-> "s1", message |-> "", hist |-> 0, reply |-> ""]

\* a request arrives: with_history.invoke starts on thread t
Start(t) ==
    /\ pc[t] = "idle"
    /\ calls < MaxChatCalls
    /\ \E s \in Sessions, m \in Messages :
          loc' = [loc EXCEPT ![t] = [NoLoc EXCEPT !.session = s, !.message = m]]
    /\ pc' = [pc EXCEPT ![t] = "check"]
    /\ calls' = calls + 1
    /\ UNCHANGED <<index, clock, last, batch, det, store, heap, done, chat>>

\* line 19: if session_id not in _store
Check(t) ==
    /\ pc[t] = "check"
    /\ pc' = [pc EXCEPT ![t] = IF loc[t].session \notin DOMAIN store
                               THEN "create" ELSE "return"]
    /\ UNCHANGED <<index, clock, last, batch, det, store, heap, done, chat, loc, calls>>

\* line 20: _store[session_id] = InMemoryChatMessageHistory()
Create(t) ==
    /\ pc[t] = "create"
    /\ heap' = Append(heap, <<>>)
    /\ store' = (loc[t].session :> (Len(heap) + 1)) @@ store
    /\ pc' = [pc EXCEPT ![t] = "return"]
    /\ UNCHANGED <<index, clock, last, batch, det, done, chat, loc, calls>>

\* line 21: return _store[session_id]
Return(t) ==
    /\ pc[t] = "return"
    /\ loc' = [loc EXCEPT ![t].hist = store[loc[t].session]]
    /\ pc' = [pc EXCEPT ![t] = "generate"]
    /\ UNCHANGED <<index, clock, last, batch, det, store, heap, done, chat, calls>>

\* the base chain runs: retriever, prompt, llm; the backend returns or errors
Generate(t) ==
    /\ pc[t] = "generate"
    /\ \E genOk \in BOOLEAN, reply \in Replies :
          IF genOk
          THEN /\ loc' = [loc EXCEPT ![t].reply = reply]
               /\ pc' = [pc EXCEPT ![t] = "append"]
          ELSE /\ loc' = [loc EXCEPT ![t] = NoLoc]
               /\ pc' = [pc EXCEPT ![t] = "idle"]
    /\ UNCHANGED <<index, clock, last, batch, det, store, heap, done, chat, calls>>

\* the chain returned: add_messages(input + output) on the history it was given
AppendTurn(t) ==
    /\ pc[t] = "append"
    /\ LET turn == <<Human(loc[t].message), AI(loc[t].reply)>>
       IN /\ heap' = AddMessages(heap, loc[t].hist, turn)
          /\ done' = [done EXCEPT ![loc[t].session] = @ \o turn]
    /\ loc' = [loc EXCEPT ![t] = NoLoc]
    /\ pc' = [pc EXCEPT ![t] = "idle"]
    /\ UNCHANGED <<index, clock, last, batch, det, store, chat, calls>>

-----------------------------------------------------------------------------
(* Specifications.                                                         *)

InitRest ==
    /\ index = {}
    /\ clock = 0
    /\ last = NoCall
    /\ batch = NoBatch
    /\ store = <<>>
    /\ heap = <<>>
    /\ done = [s \in Sessions |-> <<>>]
    /\ chat = NoChat
    /\ pc = [t \in Threads |-> "idle"]
    /\ loc = [t \in Threads |-> NoLoc]
    /\ calls = 0

Init == det = NoDet /\ InitRest

\* single-source ingestion
Next == ProcessSourceCall
Spec == Init /\ [][Next]_vars

\* batch ingestion
NextBatch == ProcessMultipleSourcesCall
SpecBatch == Init /\ [][NextBatch]_vars

\* type resolution
NextDetect == LoadDocumentCall
InitDetect == det \in DetInputs /\ InitRest
SpecDetect == InitDetect /\ [][NextDetect]_vars

\* the chat of one caller at a time
NextChat == GetCall \/ AnswerCall
SpecChat == Init /\ [][NextChat]_vars

\* the chat of concurrent callers
NextConc ==
    \E t \in Threads :
        \/ Start(t)
        \/ Check(t)
        \/ Create(t)
        \/ Return(t)
        \/ Generate(t)
        \/ AppendTurn(t)
SpecConc == Init /\ [][NextConc]_vars

-----------------------------------------------------------------------------
(* Claims on single-source ingestion (Spec).                               *)

NoRepeats(seq) == Cardinality({seq[i] : i \in 1..Len(seq)}) = Len(seq)

OneRecordPerId(idx) == \A r1, r2 \in idx : r1.chunk_id = r2.chunk_id => r1 = r2

Record(idx, id) == CHOOSE r \in idx : r.chunk_id = id

\* C1 as claimed: the ids list process_source hands to the index never holds
\* the same chunk_id twice, however many documents the loader returned.
CE_C1_UniqueChunkIds ==
    last.op = "process_source" => NoRepeats(last.ids)

\* C2: when process_source succeeded on a source and is run again on the same
\* source with the same kind and the same loaded documents, a successful second
\* run hands over the same chunk_ids in the same order, and whatever its result
\* the index has the same keys and the same number of records as after the first
\* run, one record per chunk_id.
C2_ReingestIdempotent ==
    [][ ( /\ clock' = clock + 1
          /\ last.op = "process_source"
          /\ last.result.success
          /\ last'.source = last.source
          /\ last'.source_type = last.source_type
          /\ last'.outcome = last.outcome )
        => /\ last'.result.success => last'.ids = last.ids
           /\ Keys(index') = Keys(index)
           /\ Cardinality(index') = Cardinality(index)
           /\ OneRecordPerId(index') ]_vars

\* C2 witness: a second successful run of the same source with the same
\* documents, of two chunks or more
W_C2_SecondRun ==
    /\ last.op = "process_source"
    /\ last.result.success
    /\ last.repeat
    /\ Len(last.ids) >= 2
    /\ \A i \in 1..Len(last.ids) :
          Record(index, last.ids[i]).ingestion_timestamp = clock

\* the kind given to process_source is none of the six the registry knows
Unsupported(call) == call.source_type # None /\ call.source_type \notin
                        {"pdf", "docx", "csv", "text", "web", "image"}

\* the call's source yields no loadable document
NothingLoaded(call) ==
    \/ call.outcome.raises
    \/ call.outcome.docs = <<>>
    \/ Unsupported(call)

\* C3: a process_source call whose loader raises or returns nothing, or whose
\* kind is unsupported, reports success = false, never invokes add_documents
\* and leaves the index as it was.
C3_NothingLoadedNothingStored ==
    [][ (clock' = clock + 1 /\ NothingLoaded(last'))
        => /\ ~last'.result.success
           /\ ~last'.added
           /\ last'.ids = <<>>
           /\ index' = index ]_vars

\* C3 witness: an unsupported kind is refused while the index holds records
W_C3_RefusedKind ==
    /\ last.op = "process_source"
    /\ last.source_type = "xml"
    /\ ~last.outcome.raises /\ last.outcome.docs # <<>>
    /\ ~last.result.success
    /\ index # {}

\* C5: process_source always returns a record with a success flag and a
\* message and never lets an exception out; when the kind is unsupported, the
\* loader raises, the splitter raises or the index rejects the write, success
\* is false; and success is true only when add_documents completed, that is,
\* every id handed over is in the index with this run's record.
C5_FailureBoundary ==
    last.op = "process_source" =>
        /\ ~last.raised
        /\ {"success", "message"} \subseteq last.result.keys
        /\ (Unsupported(last) \/ last.outcome.raises \/ last.fault # "none")
              => ~last.result.success
        /\ last.result.success =>
              /\ last.added
              /\ last.ids # <<>>
              /\ \A i \in 1..Len(last.ids) :
                    \E r \in index : /\ r.chunk_id = last.ids[i]
                                     /\ r.ingestion_timestamp = clock

\* C5 witness: the splitter raised on loaded documents and the call returned a
\* failure record
W_C5_SplitterRaised ==
    /\ last.op = "process_source"
    /\ last.fault = "split"
    /\ ~NothingLoaded(last)
    /\ ~last.result.success
    /\ last.result.message = "Pipeline failed"

\* the chunks a run produced: one id per chunk handed to the index
NChunks(call) == Len(call.ids)

\* C10: when a source was ingested with n chunks and the next call ingests it
\* again with m < n chunks, the records of indices 0..m-1 carry the second
\* run's content and those of indices m..n-1 are still in the index, unchanged;
\* and no process_source call removes a record from the index.
C10_StaleChunksRemain ==
    [][ /\ Keys(index) \subseteq Keys(index')
        /\ ( /\ clock' = clock + 1
             /\ last.op = "process_source"
             /\ last.result.success
             /\ last'.result.success
             /\ last'.source = last.source
             /\ NChunks(last') < NChunks(last) )
           => /\ \A i \in 0..(NChunks(last') - 1) :
                    \E r \in index' :
                       /\ r.chunk_id = ChunkId(last.source, i)
                       /\ r.ingestion_timestamp = clock'
              /\ \A i \in NChunks(last')..(NChunks(last) - 1) :
                    \E r \in index :
                       /\ r.chunk_id = ChunkId(last.source, i)
                       /\ r.ingestion_timestamp = clock
                       /\ r \in index' ]_vars

\* C10 witness: after a shorter re-ingestion the index holds a record of the
\* source from the earlier run, at an index the new run no longer has
W_C10_Orphan ==
    /\ last.op = "process_source"
    /\ last.result.success
    /\ last.prev_chunks > Len(last.ids)
    /\ \E r \in index : /\ r.original_source = last.source
                        /\ r.chunk_index >= Len(last.ids)
                        /\ r.ingestion_timestamp < clock

-----------------------------------------------------------------------------
(* Claims on batch ingestion (SpecBatch).                                  *)

RECURSIVE SumSuccessful(_)
SumSuccessful(rs) ==
    IF rs = <<>> THEN 0
    ELSE (IF Head(rs).result.success THEN Head(rs).result.chunk_count ELSE 0)
         + SumSuccessful(Tail(rs))

\* an entry nothing can be loaded for
EntryLoadsNothing(e) ==
    \/ e.type # None /\ e.type \notin {"pdf", "docx", "csv", "text", "web", "image"}
    \/ e.outcome.raises
    \/ e.outcome.docs = <<>>

\* an entry that loads one document of at least one chunk, with no fault
EntryClean(e) ==
    /\ ~EntryLoadsNothing(e)
    /\ e.fault = "none"
    /\ Len(e.outcome.docs) = 1
    /\ e.outcome.docs[1] >= 1

\* C4: process_multiple_sources over N entries returns normally with
\* total_sources = N and one detailed result per entry, in input order; every
\* entry is processed wherever it stands (one that loads nothing fails, a clean
\* one succeeds with its chunk count, also after a failed one);
\* failed_sources is the number M of failed results, successful_sources is
\* N - M, and total_chunks_stored is the sum of chunk_count over the successful
\* results only.
C4_BatchSummary ==
    batch.op = "process_multiple_sources" =>
        LET N == Len(batch.sources)
            sm == batch.summary
            rs == sm.detailed_results
            Failed == {i \in 1..Len(rs) : ~rs[i].result.success}
        IN /\ ~batch.raised
           /\ sm.total_sources = N
           /\ Len(rs) = N
           /\ \A i \in 1..N :
                 /\ rs[i].source = batch.sources[i].source
                 /\ EntryLoadsNothing(batch.sources[i]) => ~rs[i].result.success
                 /\ EntryClean(batch.sources[i]) =>
                       /\ rs[i].result.success
                       /\ rs[i].result.chunk_count = batch.sources[i].outcome.docs[1]
           /\ sm.failed_sources = Cardinality(Failed)
           /\ sm.successful_sources = N - Cardinality(Failed)
           /\ sm.total_chunks_stored = SumSuccessful(rs)
           /\ sm.success = (Cardinality(Failed) < N)

\* C4 witness: a batch of two whose first source fails and whose second stores
\* two chunks
W_C4_FailThenSucceed ==
    /\ batch.op = "process_multiple_sources"
    /\ Len(batch.sources) = 2
    /\ ~batch.summary.detailed_results[1].result.success
    /\ batch.summary.detailed_results[2].result.success
    /\ batch.summary.failed_sources = 1
    /\ batch.summary.successful_sources = 1
    /\ batch.summary.total_chunks_stored = 2

-----------------------------------------------------------------------------
(* Claims on type resolution (SpecDetect).                                 *)

\* the extension of the file a composed source names: the one it was given,
\* or the directory's when no file name follows the directory
GivenExtension(d) ==
    IF d.stem # <<>> THEN d.ext
    ELSE IF d.ext \in {<<>>, <<".">>} /\ d.dir # <<>> THEN <<".","p","d","f">>
    ELSE <<>>

\* the table of the claim, upper-case spellings written out
TableKind(e) ==
    CASE e \in {<<".","p","d","f">>, <<".","P","D","F">>} -> "pdf"
      [] e \in {<<".","d","o","c","x">>, <<".","d","o","c">>,
                <<".","D","o","c","X">>} -> "docx"
      [] e = <<".","c","s","v">> -> "csv"
      [] e \in {<<".","t","x","t">>, <<".","m","d">>, <<".","p","y">>,
                <<".","j","s","o","n">>} -> "text"
      [] e \in {<<".","p","n","g">>, <<".","j","p","g">>, <<".","j","p","e","g">>,
                <<".","J","p","g">>} -> "image"
      [] OTHER -> "text"

\* C8: the kind load_document works with is the override when one is given;
\* otherwise web for a source that starts with http:// or https://, whatever
\* its extension; otherwise the table's kind for the lower-cased extension of
\* the file, and text when the extension is unmapped or missing. Without an
\* override the result is always one of the six kinds.
C8_TypeResolution ==
    det.op = "load_document" =>
        /\ det.override # None => det.kind = det.override
        /\ (det.override = None /\ det.prefix \in {HTTP, HTTPS}) => det.kind = "web"
        /\ (det.override = None /\ det.prefix \notin {HTTP, HTTPS})
              => det.kind = TableKind(GivenExtension(det))
        /\ det.override = None
              => det.kind \in {"pdf", "docx", "csv", "text", "web", "image"}

\* C8 witness: an upper-case extension resolved through the table
W_C8_UpperCaseExtension ==
    /\ det.op = "load_document"
    /\ det.override = None
    /\ det.prefix = <<"/">>
    /\ det.stem = <<"a">>
    /\ det.ext = <<".","P","D","F">>
    /\ det.kind = "pdf"

-----------------------------------------------------------------------------
(* Claims on the session history of one caller at a time (SpecChat).       *)

IsPrefix(a, b) == Len(a) <= Len(b) /\ SubSeq(b, 1, Len(a)) = a

\* C6: in every step, each session's transcript only grows at its end and
\* equals the turns appended to that session, in append order; a registered
\* session keeps its history object; a call returns the object registered for
\* its session, empty when a get sees the session for the first time; and a
\* call on one session changes neither the transcript nor the registration of
\* any other.
C6_AppendOnlyIsolated ==
    [][ \A s \in Sessions :
          /\ IsPrefix(Hist(s), Hist(s)')
          /\ Hist(s)' = done'[s]
          /\ s \in DOMAIN store => (s \in DOMAIN store' /\ store'[s] = store[s])
          /\ calls' = calls + 1 =>
                /\ chat'.session \in DOMAIN store'
                /\ chat'.hist = store'[chat'.session]
                /\ (chat'.op = "get" /\ chat'.session \notin DOMAIN store)
                      => heap'[chat'.hist] = <<>>
                /\ s # chat'.session =>
                      /\ Hist(s)' = Hist(s)
                      /\ (s \in DOMAIN store') = (s \in DOMAIN store) ]_vars

\* C6 witness: two turns appended to s1 are read back in order while s2,
\* created by a get, is still empty
W_C6_TwoTurnsInOrder ==
    /\ "s1" \in DOMAIN store
    /\ "s2" \in DOMAIN store
    /\ Hist("s1") = <<Human("hi"), AI("hello"), Human("bye"), AI("goodbye")>>
    /\ Hist("s2") = <<>>
    /\ store["s1"] # store["s2"]

\* C9: an answer call whose backend errors raises to its caller and leaves the
\* session's transcript as it was before the call; one whose backend returns
\* does not raise and has appended exactly the user message followed by the
\* generated reply.
C9_AppendAfterGeneration ==
    chat.op = "answer" =>
        /\ chat.backend = "error" =>
              /\ chat.raised
              /\ Hist(chat.session) = chat.before
        /\ chat.backend = "ok" =>
              /\ ~chat.raised
              /\ Hist(chat.session) =
                    chat.before \o <<Human(chat.message), AI(chat.reply)>>

\* C9 witness: the backend errors on a session that already has a turn
W_C9_BackendError ==
    /\ chat.op = "answer"
    /\ chat.backend = "error"
    /\ chat.raised
    /\ chat.before # <<>>
    /\ Hist(chat.session) = chat.before

-----------------------------------------------------------------------------
(* Claims on concurrent callers (SpecConc).                                *)

\* C7 as claimed: whatever the interleaving, every turn whose append completed
\* is in the history registered for its session, in completion order.
CE_C7_NoTurnLost ==
    \A s \in Sessions : Hist(s) = done[s]

====
